---- MODULE Spec2Model ----
(***************************************************************************)
(* Model of the CI worker's job pipeline (src/main.rs): process_job hands  *)
(* one Job to execute_job, which creates a work directory, clones the      *)
(* repository into it, runs the commands, reads the declared outputs,      *)
(* removes the directory and returns a JobResult.                          *)
(*                                                                         *)
(* The external collaborators (git, sh, the filesystem, the uuid           *)
(* generator) are inputs: every call draws its outcome from a small set.   *)
(* A String that the code builds by format!/push_str is modelled as the    *)
(* sequence of the pieces that were concatenated, in order.                *)
(***************************************************************************)
EXTENDS Integers, Sequences, FiniteSets, TLC

\* ---------------------------------------------------------------- bounds
NumJobs == 2        \* request slots (concurrent calls of process_job)
MaxCmds == 2        \* longest commands list of a job, sequential runs
MaxOutputs == 2     \* longest outputs list of a job, sequential runs
ConcCmds == 1       \* longest commands list, concurrent runs
ConcOutputs == 1    \* longest outputs list, concurrent runs
NumUuids == 2       \* distinct values Uuid::new_v4 can return

Jobs == 1..NumJobs
Uuids == 1..NumUuids

\* ------------------------------------------------- external input domains
Stdouts == {"out"}
Stderrs == {"err"}
IoErrors == {"ENOENT"}
Contents == {"hello"}

\* io::Result<process::Output> of Command::output()
ProcessResults ==
    {[ok |-> TRUE, success |-> s, stdout |-> o, stderr |-> e, err |-> ""] :
        s \in BOOLEAN, o \in Stdouts, e \in Stderrs}
    \cup {[ok |-> FALSE, success |-> FALSE, stdout |-> "", stderr |-> "", err |-> x] :
        x \in IoErrors}

\* io::Result<String> of fs::read_to_string
ReadResults ==
    {[ok |-> TRUE, content |-> c, err |-> ""] : c \in Contents}
    \cup {[ok |-> FALSE, content |-> "", err |-> x] : x \in IoErrors}

\* ------------------------------------------------------------ data model
JobInput == [name : {"k"}, value : {"v"}]

CommandName(i) == "cmd" \o ToString(i)

OutputDecl(i) == [name |-> "out" \o ToString(i), path |-> "path" \o ToString(i)]

JobInputs == {<< >>, <<[name |-> "k", value |-> "v"]>>}

JobNames == {"n1", "n2"}

\* the Job values a request can carry, with at most nc commands and at most no outputs
Job(nc, no) ==
    {[name |-> n, repository |-> "repo", branch |-> "main",
      commands |-> [i \in 1..c |-> CommandName(i)],
      inputs |-> inp,
      outputs |-> [i \in 1..o |-> OutputDecl(i)]] :
        n \in JobNames, inp \in JobInputs, c \in 0..nc, o \in 0..no}

JobArtifact(name, content) == [name |-> name, content |-> content]

JobResult(id, status, output, artifacts) ==
    [id |-> id, status |-> status, output |-> output, artifacts |-> artifacts]

NoResult == [id |-> 0, status |-> "", output |-> << >>, artifacts |-> << >>]

VARIABLES
    job,        \* job[j]: the Job of request j
    pc,         \* pc[j]: position of request j inside execute_job
    dirs,       \* the directories that exist in the worker's current directory
    work_dir,   \* execute_job local
    output,     \* execute_job local: the log, as the pieces pushed so far
    status,     \* execute_job local
    artifacts,  \* execute_job local
    ci,         \* index of the next command of the for loop
    oi,         \* index of the next output_spec of the for loop
    result,     \* the JobResult returned to process_job, NoResult before
    calls       \* history: the external calls request j made, with outcomes

vars == <<job, pc, dirs, work_dir, output, status, artifacts, ci, oi, result, calls>>

Call(op, dir, arg, ok, res) == [op |-> op, dir |-> dir, arg |-> arg, ok |-> ok, res |-> res]

\* ------------------------------------------------------- pieces of output
Piece(kind, who, text) == [kind |-> kind, who |-> who, text |-> text]

\* format!("work_{}", Uuid::new_v4())
WorkDirName(u) == <<"work_", u>>

\* variant: create_dir_all, which accepts a directory that exists already
CreateDirAllOk(fs, path, io_ok) == io_ok

\* fs::create_dir: fails when the path exists already, or on another io error
CreateDirOk(fs, path, io_ok) == io_ok /\ path \notin fs

\* fs::remove_dir_all: fails when the path is missing, or on another io error
RemoveDirAllOk(fs, path, io_ok) == io_ok /\ path \in fs

\* ------------------------------------------------- execute_job, by stage
\* status after the match on clone_result
CloneStatus(res) ==
    IF res.ok /\ res.success THEN "success" ELSE "failed"

\* variant: the diagnostic of a failed clone names the work directory
CloneOutputWithDir(j, res) ==
    IF res.ok
    THEN IF res.success THEN output[j]
         ELSE <<Piece("FailedClone", work_dir[j], res.stderr)>>
    ELSE <<Piece("ErrorClone", work_dir[j], res.err)>>

\* variant: the diagnostic of a failed clone names the job
CloneOutputWithName(j, res) ==
    IF res.ok
    THEN IF res.success THEN output[j]
         ELSE <<Piece("FailedClone", job[j].name, res.stderr)>>
    ELSE <<Piece("ErrorClone", job[j].name, res.err)>>

\* output after the match on clone_result (an assignment, not a push)
CloneOutput(j, res) ==
    IF res.ok
    THEN IF res.success THEN output[j]
         ELSE <<Piece("FailedClone", "", res.stderr)>>
    ELSE <<Piece("ErrorClone", "", res.err)>>

\* variant: a non-zero exit gets an error line of its own
CommandOutputWithExitLine(out, cmd, res) ==
    IF res.ok
    THEN out \o <<Piece("Command", cmd, ""),
                  Piece("stdout", "", res.stdout),
                  Piece("stderr", "", res.stderr)>>
             \o (IF res.success THEN << >> ELSE <<Piece("ErrorExec", "", "exit")>>)
    ELSE out \o <<Piece("ErrorExec", "", res.err)>>

\* output after one iteration of the commands loop
CommandOutput(out, cmd, res) ==
    IF res.ok
    THEN out \o <<Piece("Command", cmd, ""),
                  Piece("stdout", "", res.stdout),
                  Piece("stderr", "", res.stderr)>>
    ELSE out \o <<Piece("ErrorExec", "", res.err)>>

\* variant: only a launch failure fails the job
CommandStatusOnLaunchOnly(st, res) ==
    IF res.ok THEN st ELSE "failed"

\* status after one iteration of the commands loop
CommandStatus(st, res) ==
    IF res.ok /\ res.success THEN st ELSE "failed"

\* variant: a non-zero exit does not end the loop
CommandBreaksOnLaunchOnly(res) == ~res.ok

\* whether the iteration ends in `break`
CommandBreaks(res) == ~(res.ok /\ res.success)

\* format!("{}/{}", work_dir, output_spec.path)
ArtifactPath(wd, output_spec) == <<wd, output_spec.path>>

\* variant: a failed read leaves an artifact with empty content
CollectArtifactsPlaceholder(arts, output_spec, res) ==
    Append(arts, JobArtifact(output_spec.name, res.content))

\* variant: the newest artifact goes first
CollectArtifactsPrepend(arts, output_spec, res) ==
    IF res.ok THEN <<JobArtifact(output_spec.name, res.content)>> \o arts
    ELSE arts

\* artifacts after one iteration of the outputs loop
CollectArtifacts(arts, output_spec, res) ==
    IF res.ok THEN Append(arts, JobArtifact(output_spec.name, res.content))
    ELSE arts

\* variant: a failed read is skipped without a diagnostic
CollectOutputSilent(out, output_spec, res) == out

\* output after one iteration of the outputs loop
CollectOutput(out, output_spec, res) ==
    IF res.ok THEN out
    ELSE Append(out, Piece("ErrorRead", output_spec.name, res.err))

\* where execute_job continues once the commands loop is over
AfterCommands(j) ==
    IF Len(job[j].outputs) = 0 THEN "cleanup" ELSE "collect"

\* variant: a failed clone returns at once, without the cleanup
AfterCloneEarlyReturn(j, st) ==
    IF st = "success"
    THEN IF Len(job[j].commands) = 0 THEN AfterCommands(j) ELSE "commands"
    ELSE "return"

\* variant: the commands run whatever the clone did
AfterCloneUnguarded(j, st) ==
    IF Len(job[j].commands) = 0 THEN AfterCommands(j) ELSE "commands"

\* variant: an empty commands list skips the collection too
AfterCloneSkipCollect(j, st) ==
    IF st = "success"
    THEN IF Len(job[j].commands) = 0 THEN "cleanup" ELSE "commands"
    ELSE "cleanup"

\* variant: a failed clone is tried again
AfterCloneRetry(j, st) ==
    IF st = "success"
    THEN IF Len(job[j].commands) = 0 THEN AfterCommands(j) ELSE "commands"
    ELSE "clone"

\* where execute_job continues after the clone: `if status == "success"`
AfterClone(j, st) ==
    IF st = "success"
    THEN IF Len(job[j].commands) = 0 THEN AfterCommands(j) ELSE "commands"
    ELSE "cleanup"

\* fs::create_dir(..).expect(..): an Err panics, execute_job never returns
AfterCreate(ok) == IF ok THEN "clone" ELSE "panicked"

\* variant: a failed removal is ignored
AfterRemoveIgnored(ok) == "return"

\* variant: the cleanup comes before the collection
AfterRemoveThenCollect(ok) == IF ok THEN "collect" ELSE "panicked"

\* fs::remove_dir_all(..).expect(..): an Err panics, execute_job never returns
AfterRemove(ok) == IF ok THEN "return" ELSE "panicked"

\* lines 57-62: name the work directory, create it, initialise the locals
CreateWorkDir(j) ==
    /\ pc[j] = "start"
    /\ \E u \in Uuids, io_ok \in BOOLEAN :
        LET wd == WorkDirName(u)
            ok == CreateDirOk(dirs, wd, io_ok)
        IN  /\ work_dir' = [work_dir EXCEPT ![j] = wd]
            /\ calls' = [calls EXCEPT ![j] = Append(@, Call("create", wd, "", ok, ""))]
            /\ dirs' = IF ok THEN dirs \cup {wd} ELSE dirs
            /\ pc' = [pc EXCEPT ![j] = AfterCreate(ok)]
    /\ output' = [output EXCEPT ![j] = << >>]
    /\ status' = [status EXCEPT ![j] = "success"]
    /\ artifacts' = [artifacts EXCEPT ![j] = << >>]
    /\ UNCHANGED <<job, ci, oi, result>>

\* lines 64-86: git clone -b branch repository work_dir
CloneRepository(j) ==
    /\ pc[j] = "clone"
    /\ \E res \in ProcessResults :
        /\ calls' = [calls EXCEPT ![j] =
                Append(@, Call("clone", work_dir[j], job[j].repository, res.ok, res))]
        /\ status' = [status EXCEPT ![j] = CloneStatus(res)]
        /\ output' = [output EXCEPT ![j] = CloneOutput(j, res)]
        /\ pc' = [pc EXCEPT ![j] = AfterClone(j, CloneStatus(res))]
    /\ ci' = [ci EXCEPT ![j] = 1]
    /\ oi' = [oi EXCEPT ![j] = 1]
    /\ UNCHANGED <<job, dirs, work_dir, artifacts, result>>

\* lines 87-116: one iteration of `for (i, cmd) in job.commands`
RunCommand(j) ==
    /\ pc[j] = "commands"
    /\ ci[j] <= Len(job[j].commands)
    /\ LET cmd == job[j].commands[ci[j]] IN
       \E res \in ProcessResults :
        /\ calls' = [calls EXCEPT ![j] =
                Append(@, Call("sh", work_dir[j], cmd, res.ok, res))]
        /\ output' = [output EXCEPT ![j] = CommandOutput(@, cmd, res)]
        /\ status' = [status EXCEPT ![j] = CommandStatus(@, res)]
        /\ pc' = [pc EXCEPT ![j] =
                IF CommandBreaks(res) \/ ci[j] = Len(job[j].commands)
                THEN AfterCommands(j) ELSE "commands"]
    /\ ci' = [ci EXCEPT ![j] = @ + 1]
    /\ UNCHANGED <<job, dirs, work_dir, artifacts, oi, result>>

\* lines 120-135: one iteration of `for output_spec in &job.outputs`
ReadOutput(j) ==
    /\ pc[j] = "collect"
    /\ oi[j] <= Len(job[j].outputs)
    /\ LET output_spec == job[j].outputs[oi[j]] IN
       \E res \in ReadResults :
        /\ calls' = [calls EXCEPT ![j] =
                Append(@, Call("read", ArtifactPath(work_dir[j], output_spec)[1],
                               output_spec.path, res.ok, res))]
        /\ artifacts' = [artifacts EXCEPT ![j] = CollectArtifacts(@, output_spec, res)]
        /\ output' = [output EXCEPT ![j] = CollectOutput(@, output_spec, res)]
    /\ pc' = [pc EXCEPT ![j] =
            IF oi[j] = Len(job[j].outputs) THEN "cleanup" ELSE "collect"]
    /\ oi' = [oi EXCEPT ![j] = @ + 1]
    /\ UNCHANGED <<job, dirs, work_dir, status, ci, result>>

\* lines 138-140: fs::remove_dir_all(&work_dir).expect(..)
RemoveWorkDir(j) ==
    /\ pc[j] = "cleanup"
    /\ \E io_ok \in BOOLEAN :
        LET ok == RemoveDirAllOk(dirs, work_dir[j], io_ok)
        IN  /\ calls' = [calls EXCEPT ![j] =
                    Append(@, Call("remove", work_dir[j], "", ok, ""))]
            /\ dirs' = IF ok THEN dirs \ {work_dir[j]} ELSE dirs
            /\ pc' = [pc EXCEPT ![j] = AfterRemove(ok)]
    /\ UNCHANGED <<job, work_dir, output, status, artifacts, ci, oi, result>>

\* lines 142-155 and 49-53: build the JobResult and hand it to process_job
ReturnResult(j) ==
    /\ pc[j] = "return"
    /\ \E id \in Uuids :
        result' = [result EXCEPT ![j] =
            JobResult(id, status[j], output[j], artifacts[j])]
    /\ pc' = [pc EXCEPT ![j] = "done"]
    /\ UNCHANGED <<job, dirs, work_dir, output, status, artifacts, ci, oi, calls>>

\* ------------------------------------------------------- specifications
InitLocals ==
    /\ dirs = {}
    /\ work_dir = [j \in Jobs |-> WorkDirName(0)]
    /\ output = [j \in Jobs |-> << >>]
    /\ status = [j \in Jobs |-> "success"]
    /\ artifacts = [j \in Jobs |-> << >>]
    /\ ci = [j \in Jobs |-> 1]
    /\ oi = [j \in Jobs |-> 1]
    /\ result = [j \in Jobs |-> NoResult]
    /\ calls = [j \in Jobs |-> << >>]

IdleJob == CHOOSE d \in Job(0, 0) : TRUE

\* one request: the worker executes a single job
Init ==
    /\ \E d \in Job(MaxCmds, MaxOutputs) :
        job = [j \in Jobs |-> IF j = 1 THEN d ELSE IdleJob]
    /\ pc = [j \in Jobs |-> IF j = 1 THEN "start" ELSE "none"]
    /\ InitLocals

\* one request per slot, all in flight together
InitConc ==
    /\ job \in [Jobs -> Job(ConcCmds, ConcOutputs)]
    /\ pc = [j \in Jobs |-> "start"]
    /\ InitLocals

Next ==
    \E j \in Jobs :
        \/ CreateWorkDir(j)
        \/ CloneRepository(j)
        \/ RunCommand(j)
        \/ ReadOutput(j)
        \/ RemoveWorkDir(j)
        \/ ReturnResult(j)

Spec == Init /\ [][Next]_vars

SpecConc == InitConc /\ [][Next]_vars

\* the next step of request j
JobStep(j) ==
    \/ CreateWorkDir(j)
    \/ CloneRepository(j)
    \/ RunCommand(j)
    \/ ReadOutput(j)
    \/ RemoveWorkDir(j)
    \/ ReturnResult(j)

\* one request, whose task keeps running and whose blocking calls all return
SpecLive == Init /\ [][Next]_vars /\ \A j \in Jobs : WF_vars(JobStep(j))

\* ------------------------------------------------- reading the history
CallsOf(j, op) == SelectSeq(calls[j], LAMBDA c : c.op = op)

Succeeded(c) == c.ok /\ c.res.success

Returned(j) == pc[j] = "done"

HasPiece(out, kind) == \E i \in 1..Len(out) : out[i].kind = kind

CommandKinds == {"Command", "stdout", "stderr", "ErrorExec"}

CommandPieces(out) == SelectSeq(out, LAMBDA p : p.kind \in CommandKinds)

CloneFailed(j) ==
    /\ Len(CallsOf(j, "clone")) = 1
    /\ ~Succeeded(CallsOf(j, "clone")[1])

CloneSucceeded(j) ==
    /\ Len(CallsOf(j, "clone")) = 1
    /\ Succeeded(CallsOf(j, "clone")[1])

SomeCommandFailed(j) ==
    \E i \in 1..Len(CallsOf(j, "sh")) : ~Succeeded(CallsOf(j, "sh")[i])

\* C1: whatever the clone, the commands and the reads did, a job that has
\* returned its result made exactly one create_dir call, which succeeded, and
\* exactly one remove_dir_all call, on that same directory, as its last call.
WorkspaceCreatedAndRemovedOnce ==
    \A j \in Jobs : Returned(j) =>
        LET cr == CallsOf(j, "create")
            rm == CallsOf(j, "remove")
        IN  /\ Len(cr) = 1 /\ cr[1].ok
            /\ Len(rm) = 1 /\ rm[1].ok
            /\ rm[1].dir = cr[1].dir
            /\ calls[j][1] = cr[1]
            /\ calls[j][Len(calls[j])] = rm[1]

\* C1 witness: a job returned on the longest failing path, a failed command
\* followed by a failed read.
WorkspaceOnceWitness ==
    \E j \in Jobs :
        /\ Returned(j)
        /\ SomeCommandFailed(j)
        /\ HasPiece(result[j].output, "ErrorRead")

\* C2: when the clone fails or a command fails to launch or exits non-zero,
\* no declared output is read, artifacts stays empty and the log has no
\* artifact-read diagnostic.
NoCollectionAfterFailure ==
    \A j \in Jobs : (CloneFailed(j) \/ SomeCommandFailed(j)) =>
        /\ Len(CallsOf(j, "read")) = 0
        /\ artifacts[j] = << >>
        /\ ~HasPiece(output[j], "ErrorRead")

\* the log segment one launched-or-not command is expected to leave
ExpectedSegment(c) ==
    IF c.ok
    THEN <<Piece("Command", c.arg, ""), Piece("stdout", "", c.res.stdout),
           Piece("stderr", "", c.res.stderr)>>
    ELSE <<Piece("ErrorExec", "", c.res.err)>>

RECURSIVE ExpectedSegments(_)
ExpectedSegments(sh) ==
    IF Len(sh) = 0 THEN << >>
    ELSE ExpectedSegments(SubSeq(sh, 1, Len(sh) - 1)) \o ExpectedSegment(sh[Len(sh)])

\* C3: fail-fast. The commands launched are a prefix of the list; once one
\* fails to launch or exits non-zero it is the last one launched, the status
\* is failed, and the command part of the log is the segments of the launched
\* commands, in order, and nothing of a later command.
FailFast ==
    \A j \in Jobs :
        LET sh == CallsOf(j, "sh") IN
        /\ Len(sh) <= Len(job[j].commands)
        /\ \A i \in 1..Len(sh) : sh[i].arg = job[j].commands[i]
        /\ \A i \in 1..Len(sh) : ~Succeeded(sh[i]) =>
            /\ i = Len(sh)
            /\ status[j] = "failed"
            /\ pc[j] # "commands"
            /\ CommandPieces(output[j]) = ExpectedSegments(sh)
            /\ \A k \in (i + 1)..Len(job[j].commands) :
                \A p \in 1..Len(output[j]) : output[j][p].who # job[j].commands[k]
            /\ Returned(j) => /\ result[j].status = "failed"
                              /\ CommandPieces(result[j].output) = ExpectedSegments(sh)

\* C3 witness: the first of two commands exited non-zero and the job returned.
FailFastWitness ==
    \E j \in Jobs :
        /\ Returned(j)
        /\ Len(job[j].commands) = 2
        /\ Len(CallsOf(j, "sh")) = 1
        /\ CallsOf(j, "sh")[1].ok /\ ~CallsOf(j, "sh")[1].res.success

\* the diagnostic a failed clone is expected to leave
FetchDiagnostic(c) ==
    IF c.ok THEN Piece("FailedClone", "", c.res.stderr)
    ELSE Piece("ErrorClone", "", c.res.err)

\* C4: after a failed clone (git not invocable, or non-zero exit) no command
\* is launched and no output read, status is failed, artifacts is empty and
\* output is the fetch diagnostic alone; the returned result says the same.
FetchFailure ==
    \A j \in Jobs : CloneFailed(j) =>
        LET c == CallsOf(j, "clone")[1] IN
        /\ Len(CallsOf(j, "sh")) = 0
        /\ Len(CallsOf(j, "read")) = 0
        /\ status[j] = "failed"
        /\ artifacts[j] = << >>
        /\ output[j] = <<FetchDiagnostic(c)>>
        /\ Returned(j) => result[j] =
                JobResult(result[j].id, "failed", <<FetchDiagnostic(c)>>, << >>)

\* C4 witness: a job with commands and outputs returned after git could not
\* be invoked.
FetchFailureWitness ==
    \E j \in Jobs :
        /\ Returned(j)
        /\ CloneFailed(j)
        /\ ~CallsOf(j, "clone")[1].ok
        /\ Len(job[j].commands) > 0
        /\ Len(job[j].outputs) > 0

AllCommandsSucceeded(j) ==
    /\ CloneSucceeded(j)
    /\ Len(CallsOf(j, "sh")) = Len(job[j].commands)
    /\ ~SomeCommandFailed(j)

CountPieces(out, kind, who) ==
    Cardinality({i \in 1..Len(out) : out[i].kind = kind /\ out[i].who = who})

\* C5: when the clone and every command succeeded, an output whose read fails
\* adds no artifact and exactly one diagnostic piece naming it, and the status
\* stays success up to the returned result; in general, once reads have been
\* made the status is failed only if a command failed.
ReadFailureIsNotFatal ==
    \A j \in Jobs :
        LET rd == CallsOf(j, "read") IN
        /\ Len(rd) > 0 => (status[j] = "failed" <=> SomeCommandFailed(j))
        /\ AllCommandsSucceeded(j) =>
            /\ status[j] = "success"
            /\ Returned(j) => result[j].status = "success"
            /\ \A k \in 1..Len(rd) : ~rd[k].ok =>
                LET name == job[j].outputs[k].name IN
                /\ \A a \in 1..Len(artifacts[j]) : artifacts[j][a].name # name
                /\ CountPieces(output[j], "ErrorRead", name) = 1
                /\ Returned(j) =>
                    /\ \A a \in 1..Len(result[j].artifacts) :
                            result[j].artifacts[a].name # name
                    /\ CountPieces(result[j].output, "ErrorRead", name) = 1

\* C5 witness: both commands succeeded, the first output could not be read,
\* the second could, and the job returned.
ReadFailureWitness ==
    \E j \in Jobs :
        /\ Returned(j)
        /\ Len(job[j].commands) = 2
        /\ AllCommandsSucceeded(j)
        /\ Len(CallsOf(j, "read")) = 2
        /\ ~CallsOf(j, "read")[1].ok
        /\ CallsOf(j, "read")[2].ok

\* C6: a JobResult exists only for a job that created its work directory and
\* then removed it, and the directory is gone whenever the result exists; a
\* failed create_dir is the job's only call, and after a failed create_dir or
\* remove_dir_all the job is aborted and has no JobResult.
ResultOnlyAfterRemoval ==
    \A j \in Jobs :
        LET cr == CallsOf(j, "create")
            rm == CallsOf(j, "remove")
        IN  /\ result[j] # NoResult <=> Returned(j)
            /\ result[j] # NoResult =>
                /\ Len(cr) = 1 /\ cr[1].ok
                /\ Len(rm) = 1 /\ rm[1].ok
                /\ work_dir[j] \notin dirs
            /\ (\E i \in 1..Len(cr) : ~cr[i].ok) =>
                /\ calls[j] = cr
                /\ Len(cr) = 1
                /\ pc[j] = "panicked"
                /\ result[j] = NoResult
            /\ (\E i \in 1..Len(rm) : ~rm[i].ok) =>
                /\ pc[j] = "panicked"
                /\ result[j] = NoResult

\* C6 witness: a job that collected an artifact has returned its result.
ResultAfterRemovalWitness ==
    \E j \in Jobs :
        /\ result[j] # NoResult
        /\ Len(result[j].artifacts) > 0
        /\ Len(CallsOf(j, "remove")) = 1

\* between a successful create_dir and the end of remove_dir_all
InUse(j) == pc[j] \in {"clone", "commands", "collect", "cleanup"}

EmptyCommands ==
    \A j \in Jobs :
        (Returned(j) /\ Len(job[j].commands) = 0 /\ CloneSucceeded(j)) =>
            LET rd == CallsOf(j, "read") IN
            /\ Len(CallsOf(j, "sh")) = 0
            /\ CommandPieces(result[j].output) = << >>
            /\ result[j].status = "success"
            /\ Len(rd) = Len(job[j].outputs)
            /\ \A k \in 1..Len(rd) : rd[k].ok =>
                \E a \in 1..Len(result[j].artifacts) :
                    result[j].artifacts[a] =
                        JobArtifact(job[j].outputs[k].name, rd[k].res.content)
            /\ Len(result[j].artifacts) = Cardinality({k \in 1..Len(rd) : rd[k].ok})

\* C8 witness: no commands, one declared output with content "hello": the
\* result is success with that one artifact.
EmptyCommandsWitness ==
    \E j \in Jobs :
        /\ Returned(j)
        /\ Len(job[j].commands) = 0
        /\ Len(job[j].outputs) = 1
        /\ result[j].status = "success"
        /\ result[j].artifacts = <<JobArtifact(job[j].outputs[1].name, "hello")>>

\* the artifacts the first n reads are expected to have produced
RECURSIVE ExpectedArtifacts(_, _, _)
ExpectedArtifacts(outs, rd, n) ==
    IF n = 0 THEN << >>
    ELSE ExpectedArtifacts(outs, rd, n - 1) \o
         (IF rd[n].ok THEN <<JobArtifact(outs[n].name, rd[n].res.content)>> ELSE << >>)

\* C9: artifacts is at every moment the declared outputs whose reads
\* succeeded so far, in declaration order, each with the declared name and
\* the content read; the returned result carries that sequence.
ArtifactsInDeclarationOrder ==
    \A j \in Jobs :
        LET rd == CallsOf(j, "read") IN
        /\ Len(rd) <= Len(job[j].outputs)
        /\ \A k \in 1..Len(rd) : rd[k].arg = job[j].outputs[k].path
        /\ artifacts[j] = ExpectedArtifacts(job[j].outputs, rd, Len(rd))
        /\ Returned(j) =>
            result[j].artifacts = ExpectedArtifacts(job[j].outputs, rd, Len(rd))

\* C9 witness: both of two declared outputs were read and returned.
ArtifactsOrderWitness ==
    \E j \in Jobs :
        /\ Returned(j)
        /\ Len(result[j].artifacts) = 2
        /\ result[j].artifacts[1].name = job[j].outputs[1].name
        /\ result[j].artifacts[2].name = job[j].outputs[2].name

\* what the external world answered to job j, call by call, without the
\* generated directory name
Outcomes(j) ==
    [i \in 1..Len(calls[j]) |->
        [op |-> calls[j][i].op, arg |-> calls[j][i].arg,
         ok |-> calls[j][i].ok, res |-> calls[j][i].res]]

\* C10: two executions of the same job that failed, with the same answers
\* from git, sh and the filesystem, return the same status, output and
\* artifacts; only the id and the work directory may differ.
FailureReportingRepeatable ==
    \A j1, j2 \in Jobs :
        (/\ Returned(j1) /\ Returned(j2)
         /\ job[j1] = job[j2]
         /\ result[j1].status = "failed"
         /\ Outcomes(j1) = Outcomes(j2)) =>
            /\ result[j2].status = result[j1].status
            /\ result[j2].output = result[j1].output
            /\ result[j2].artifacts = result[j1].artifacts

\* C10 witness: the same job failed twice on a command, with the same
\* answers, in different work directories and with different result ids.
FailureRepeatableWitness ==
    \E j1, j2 \in Jobs :
        /\ j1 # j2
        /\ Returned(j1) /\ Returned(j2)
        /\ job[j1] = job[j2]
        /\ result[j1].status = "failed"
        /\ SomeCommandFailed(j1)
        /\ Outcomes(j1) = Outcomes(j2)
        /\ work_dir[j1] # work_dir[j2]
        /\ result[j1].id # result[j2].id

\* the place of a call in the order of the stages of execute_job
StageOf(op) ==
    CASE op = "create" -> 1
      [] op = "clone" -> 2
      [] op = "sh" -> 3
      [] op = "read" -> 4
      [] op = "remove" -> 5

\* C11: the calls of one job come stage by stage: the create, then the one
\* clone, then the commands one by one in declared order (those launched are
\* always a prefix of the list), then the reads, then the one removal, which
\* follows every clone, command and read of the job.
StagesSequential ==
    \A j \in Jobs :
        LET sh == CallsOf(j, "sh") IN
        /\ \A i \in 1..(Len(calls[j]) - 1) :
            StageOf(calls[j][i].op) <= StageOf(calls[j][i + 1].op)
        /\ Len(CallsOf(j, "clone")) <= 1
        /\ Len(CallsOf(j, "remove")) <= 1
        /\ Len(sh) > 0 => CloneSucceeded(j)
        /\ Len(sh) <= Len(job[j].commands)
        /\ \A i \in 1..Len(sh) : sh[i].arg = job[j].commands[i]
        /\ Len(CallsOf(j, "remove")) = 1 =>
            calls[j][Len(calls[j])].op = "remove"

\* C11 witness: a job ran two commands, read two outputs, removed its
\* directory and returned.
StagesSequentialWitness ==
    \E j \in Jobs :
        /\ Returned(j)
        /\ Len(CallsOf(j, "sh")) = 2
        /\ Len(CallsOf(j, "read")) = 2

\* position of the first piece of the log with this kind and text, 0 if none
FirstPiece(out, kind, who) ==
    IF \E i \in 1..Len(out) : out[i].kind = kind /\ out[i].who = who
    THEN CHOOSE i \in 1..Len(out) :
            /\ out[i].kind = kind /\ out[i].who = who
            /\ \A k \in 1..(i - 1) : ~(out[k].kind = kind /\ out[k].who = who)
    ELSE 0

\* C12: every command attempted, one that failed to launch included, has a
\* line in the log that identifies it; the line is followed by the command's
\* stdout, then its stderr, then any error text for it, and the segments come
\* in command order.
CommandLineForEveryAttempt ==
    \A j \in Jobs :
        LET sh == CallsOf(j, "sh")
            cp == CommandPieces(output[j])
        IN  /\ \A i \in 1..Len(sh) : FirstPiece(cp, "Command", sh[i].arg) > 0
            /\ \A i \in 1..Len(sh) :
                LET at == FirstPiece(cp, "Command", sh[i].arg) IN
                (at > 0 /\ sh[i].ok) =>
                    /\ at + 2 <= Len(cp)
                    /\ cp[at + 1] = Piece("stdout", "", sh[i].res.stdout)
                    /\ cp[at + 2] = Piece("stderr", "", sh[i].res.stderr)
            /\ \A i, k \in 1..Len(sh) :
                i < k => FirstPiece(cp, "Command", sh[i].arg)
                            < FirstPiece(cp, "Command", sh[k].arg)

\* C13: a command that fails to launch leaves exactly one error line in the
\* log, and it is the last command piece; a command that runs and exits
\* non-zero leaves no error line, its last pieces being its stdout and stderr;
\* either way the status is failed and no further command is launched.
CommandFailureLogging ==
    \A j \in Jobs :
        LET sh == CallsOf(j, "sh")
            cp == CommandPieces(output[j])
            errs == {p \in 1..Len(cp) : cp[p].kind = "ErrorExec"}
        IN  \A i \in 1..Len(sh) : ~Succeeded(sh[i]) =>
            /\ i = Len(sh)
            /\ status[j] = "failed"
            /\ pc[j] # "commands"
            /\ ~sh[i].ok =>
                /\ errs = {Len(cp)}
                /\ cp[Len(cp)] = Piece("ErrorExec", "", sh[i].res.err)
                /\ Len(cp) = 3 * (i - 1) + 1
            /\ sh[i].ok =>
                /\ errs = {}
                /\ Len(cp) = 3 * i
                /\ cp[Len(cp) - 1] = Piece("stdout", "", sh[i].res.stdout)
                /\ cp[Len(cp)] = Piece("stderr", "", sh[i].res.stderr)

\* C13 witness: the second of two commands could not be launched, after the
\* first had succeeded, and the job returned.
CommandFailureLoggingWitness ==
    \E j \in Jobs :
        /\ Returned(j)
        /\ Len(CallsOf(j, "sh")) = 2
        /\ Succeeded(CallsOf(j, "sh")[1])
        /\ ~CallsOf(j, "sh")[2].ok

StatusValues == {"success", "failed"}

\* C14: status is always success or failed; it is success when the clone is
\* about to start; the returned status is success exactly when the clone
\* succeeded and every command of the list was launched and exited zero; and
\* a status that is failed stays failed.
StatusStateMachine ==
    /\ [](\A j \in Jobs :
            /\ status[j] \in StatusValues
            /\ pc[j] = "clone" => status[j] = "success"
            /\ Returned(j) =>
                /\ result[j].status \in StatusValues
                /\ result[j].status = status[j]
                /\ result[j].status = "success" <=> AllCommandsSucceeded(j))
    /\ [][\A j \in Jobs : status[j] = "failed" => status'[j] = "failed"]_vars

\* C14 witness: a job whose two commands both exited zero returned success,
\* although a read had failed.
StatusSuccessWitness ==
    \E j \in Jobs :
        /\ Returned(j)
        /\ result[j].status = "success"
        /\ Len(CallsOf(j, "sh")) = 2
        /\ HasPiece(result[j].output, "ErrorRead")

\* the two jobs agree on everything but name and inputs
SameWork(j1, j2) ==
    /\ job[j1].repository = job[j2].repository
    /\ job[j1].branch = job[j2].branch
    /\ job[j1].commands = job[j2].commands
    /\ job[j1].outputs = job[j2].outputs

\* the external world answered the two calls alike
SameAnswer(c1, c2) == c1.op = c2.op /\ c1.ok = c2.ok /\ c1.res = c2.res

\* the first n calls of the two jobs were answered alike
AgreeUpTo(j1, j2, n) ==
    \A k \in 1..n : SameAnswer(calls[j1][k], calls[j2][k])

ShorterLen(j1, j2) ==
    IF Len(calls[j1]) <= Len(calls[j2]) THEN Len(calls[j1]) ELSE Len(calls[j2])

\* C15: two jobs that differ at most in name and inputs make the same next
\* call (same operation, same argument) as long as their earlier calls were
\* answered alike, and when both have returned after the same answers they
\* carry the same status, output and artifacts; whatever the job, every uuid
\* can become the id of its result.
NameAndInputsIrrelevant ==
    /\ \A j1, j2 \in Jobs : SameWork(j1, j2) =>
        /\ \A i \in 1..ShorterLen(j1, j2) : AgreeUpTo(j1, j2, i - 1) =>
            /\ calls[j1][i].op = calls[j2][i].op
            /\ calls[j1][i].arg = calls[j2][i].arg
        /\ (/\ Returned(j1) /\ Returned(j2)
            /\ Len(calls[j1]) = Len(calls[j2])
            /\ AgreeUpTo(j1, j2, Len(calls[j1]))) =>
                /\ result[j1].status = result[j2].status
                /\ result[j1].output = result[j2].output
                /\ result[j1].artifacts = result[j2].artifacts
    /\ \A j \in Jobs : pc[j] = "return" =>
        \A id \in Uuids : ENABLED (ReturnResult(j) /\ result'[j].id = id)

\* C15 witness: two jobs with different names and different inputs ran the
\* same command and read the same output with the same answers, and both
\* returned.
NameAndInputsWitness ==
    \E j1, j2 \in Jobs :
        /\ SameWork(j1, j2)
        /\ job[j1].name # job[j2].name
        /\ job[j1].inputs # job[j2].inputs
        /\ Returned(j1) /\ Returned(j2)
        /\ Len(CallsOf(j1, "sh")) = 1
        /\ Len(CallsOf(j1, "read")) = 1
        /\ Len(calls[j1]) = Len(calls[j2])
        /\ AgreeUpTo(j1, j2, Len(calls[j1]))

\* an external process has been started and has not returned yet
ProcessPending(j) == pc[j] \in {"clone", "commands"}

\* C16: when every call returns, a job that starts ends, either returned or
\* aborted by a failed create_dir or remove_dir_all; it makes at most one
\* clone, at most len(commands) launches and at most len(outputs) reads; its
\* result, once emitted, never changes; and as long as an external process
\* has not returned there is no result and the work directory still exists.
TerminatesWithOneResult ==
    /\ \A j \in Jobs : (pc[j] = "start") ~> (pc[j] \in {"done", "panicked"})
    /\ [](\A j \in Jobs :
            /\ Len(CallsOf(j, "clone")) <= 1
            /\ Len(CallsOf(j, "sh")) <= Len(job[j].commands)
            /\ Len(CallsOf(j, "read")) <= Len(job[j].outputs)
            /\ pc[j] = "panicked" =>
                \E i \in 1..Len(calls[j]) :
                    calls[j][i].op \in {"create", "remove"} /\ ~calls[j][i].ok
            /\ ProcessPending(j) =>
                /\ result[j] = NoResult
                /\ Len(CallsOf(j, "remove")) = 0
                /\ work_dir[j] \in dirs)
    /\ [][\A j \in Jobs : result[j] # NoResult => result'[j] = result[j]]_vars

\* C16 witness: a job with two commands and two outputs returned its result
\* after the second command had exited non-zero.
TerminatesWitness ==
    \E j \in Jobs :
        /\ Returned(j)
        /\ result[j] # NoResult
        /\ Len(job[j].outputs) = 2
        /\ Len(CallsOf(j, "sh")) = 2
        /\ CallsOf(j, "sh")[2].ok /\ ~CallsOf(j, "sh")[2].res.success

CountKind(out, kind) == Cardinality({i \in 1..Len(out) : out[i].kind = kind})

\* the outputs loop of job j is over
CollectionOver(j) == CloneSucceeded(j) /\ pc[j] \in {"cleanup", "return", "done"}

\* C17: the reads follow the declared outputs one by one; each read leaves
\* either one artifact or one diagnostic line, never both, so artifacts plus
\* read diagnostics count the reads made; and when the collection is over
\* every declared output has been read once, whatever reads failed before.
CollectionAccounting ==
    \A j \in Jobs :
        LET rd == CallsOf(j, "read") IN
        /\ Len(rd) <= Len(job[j].outputs)
        /\ \A k \in 1..Len(rd) : rd[k].arg = job[j].outputs[k].path
        /\ Len(artifacts[j]) + CountKind(output[j], "ErrorRead") = Len(rd)
        /\ \A k \in 1..Len(rd) :
            LET name == job[j].outputs[k].name
                got == {a \in 1..Len(artifacts[j]) : artifacts[j][a].name = name}
            IN  IF rd[k].ok
                THEN /\ Cardinality(got) = 1
                     /\ CountPieces(output[j], "ErrorRead", name) = 0
                ELSE /\ Cardinality(got) = 0
                     /\ CountPieces(output[j], "ErrorRead", name) = 1
        /\ CollectionOver(j) => Len(rd) = Len(job[j].outputs)
        /\ (Returned(j) /\ CloneSucceeded(j)) =>
            Len(result[j].artifacts) + CountKind(result[j].output, "ErrorRead")
                = Len(job[j].outputs)

\* C17 witness: the collection ran after a failed command; the first read
\* failed, the second still took place and succeeded, and the job returned.
CollectionAccountingWitness ==
    \E j \in Jobs :
        /\ Returned(j)
        /\ SomeCommandFailed(j)
        /\ Len(CallsOf(j, "read")) = 2
        /\ ~CallsOf(j, "read")[1].ok
        /\ CallsOf(j, "read")[2].ok
        /\ Len(result[j].artifacts) = 1

====
